---------------------------- MODULE Spec2Model ----------------------------
(***************************************************************************)
(* NoClip (src/main.py): clipboard sharing over an HTTP API.               *)
(*                                                                         *)
(* The state is the relational store (tables users, friendships, clips),   *)
(* the CLI's local config file, and the output of the last operation (the  *)
(* HTTP response, or what the register command echoed).                    *)
(*                                                                         *)
(* Spec     : every handler runs to completion before the next one starts  *)
(*            (one server process: the handlers are async functions that   *)
(*            never await, so the event loop runs each body as a whole).   *)
(* AuthSpec : as Spec, with three registered users and one bucket.         *)
(* ConcSpec : several server processes share the store (DATABASE_URL); a   *)
(*            writing handler's queries and its insert/update + commit are *)
(*            separate steps, and other requests run in between.           *)
(***************************************************************************)
EXTENDS Naturals, FiniteSets, Bags

VARIABLES
    users,        \* table users: rows [id, api_key]
    friendships,  \* table friendships: rows <<user_id, friend_id>>
    clips,        \* table clips: rows [owner_id, bucket, content]
    config,       \* CONFIG_FILE: the set of <<key, value>> lines it holds
    response,     \* output of the last operation
    pending       \* ConcSpec: requests between their query and their commit

vars == <<users, friendships, clips, config, response, pending>>

---------------------------------------------------------------------------
(* Input domains *)

UserIds  == {"alice", "bob", "carol"}
ApiKeys  == {"k1", "k2", "k3"}    \* values secrets.token_urlsafe may yield
NoKey    == "(no header)"         \* request without X-API-Key
\* What a request may carry (the CLI's add, put and get send the api_key of
\* the local config, one of these).
ReqKeys  == ApiKeys \cup {NoKey}
Buckets  == {"work", "default"}
Contents == {"a", "b"}
NoContent == "(none)"

\* Spec and ConcSpec: the registrations tried (carol stays an unknown id, k3
\* an unknown key; two registrations may draw the same key).
SomeUserIds == {"alice", "bob"}
SomeApiKeys == {"k1", "k2"}

\* AuthSpec: three users, each registering with a key of their own, and
\* one bucket.
KeyOf(user_id) ==
    CASE user_id = "alice" -> "k1"
      [] user_id = "bob"   -> "k2"
      [] user_id = "carol" -> "k3"
OneBucket == {"work"}

\* ConcSpec: requests that may sit between query and commit at once; its
\* PUT requests write OneBucket (the races are races on one key).
MaxInFlight == 2

---------------------------------------------------------------------------
(* Responses *)

Resp(status, detail, content) ==
    [status |-> status, detail |-> detail, content |-> content]

\* HTTPException(status_code, detail)
HTTPException(status, detail) == Resp(status, detail, NoContent)

\* An exception no handler catches: the server answers 500.
InternalServerError == Resp(500, "Internal Server Error", NoContent)

\* click.echo of the register command (not an HTTP response: status 0).
Echo(text) == Resp(0, text, NoContent)

NoResponse == Resp(0, "", NoContent)

---------------------------------------------------------------------------
(* Persistent store *)

UserRow(id, api_key) == [id |-> id, api_key |-> api_key]
ClipRow(owner_id, bucket, content) ==
    [owner_id |-> owner_id, bucket |-> bucket, content |-> content]

\* INSERT INTO users: primary key id, unique api_key.
UsersInsertFails(tbl, row) ==
    \E r \in tbl : r.id = row.id \/ r.api_key = row.api_key

\* INSERT INTO friendships: composite primary key (user_id, friend_id).
FriendshipInsertFails(tbl, row) == row \in tbl

\* INSERT INTO clips: composite primary key (owner_id, bucket).
ClipInsertFails(tbl, row) ==
    \E r \in tbl : r.owner_id = row.owner_id /\ r.bucket = row.bucket

---------------------------------------------------------------------------
(* Authentication *)

\* APIKeyHeader(name="X-API-Key") with auto_error left on: a request without
\* the header is rejected by the dependency itself, as "Not authenticated",
\* with 403 (FastAPI before 0.122) or 401 (from 0.122 on).
MissingKeyStatus == {401, 403}

\* db.query(User).filter(User.api_key == api_key): the matching rows.
get_current_user(tbl, api_key) == {r \in tbl : r.api_key = api_key}

Authenticated(api_key) ==
    api_key # NoKey /\ get_current_user(users, api_key) # {}

CurrentUserId(api_key) ==
    (CHOOSE r \in get_current_user(users, api_key) : TRUE).id

\* The request dies in the dependencies, before the handler body.
Reject(api_key) ==
    /\ \/ /\ api_key = NoKey
          /\ \E st \in MissingKeyStatus :
                response' = HTTPException(st, "Not authenticated")
       \/ /\ api_key # NoKey
          /\ get_current_user(users, api_key) = {}
          /\ response' = HTTPException(401, "Invalid API key")
    /\ UNCHANGED <<users, friendships, clips, config, pending>>

---------------------------------------------------------------------------
(* Friendship queries *)

\* Mutant: the filter drops the friend_id side, so any row of `a` matches.
FriendshipQuery_AnyEdge(tbl, a, b) ==
    {e \in tbl : e[1] = a \/ e[2] = a}

\* Mutant: the filter searches one direction only.
FriendshipQuery_OneWay(tbl, a, b) ==
    {e \in tbl : e[1] = a /\ e[2] = b}

\* The filter of get_clip and add_friend: a row in either direction.
FriendshipQuery(tbl, a, b) ==
    {e \in tbl : (e[1] = a /\ e[2] = b) \/ (e[1] = b /\ e[2] = a)}

---------------------------------------------------------------------------
(* PUT /clip/{bucket} *)

ClipQuery(tbl, owner_id, bucket) ==
    {r \in tbl : r.owner_id = owner_id /\ r.bucket = bucket}

\* Mutant: the UPDATE is keyed by owner_id alone.
ClipUpdate_AllBuckets(tbl, owner_id, bucket, content) ==
    {IF r.owner_id = owner_id
        THEN [r EXCEPT !.content = content] ELSE r : r \in tbl}

\* clip.content = content.content; flushed as an UPDATE by primary key.
ClipUpdate(tbl, owner_id, bucket, content) ==
    {IF r.owner_id = owner_id /\ r.bucket = bucket
        THEN [r EXCEPT !.content = content] ELSE r : r \in tbl}

\* Mutant: an existing clip is left as it is (the put only creates).
put_clip_commit_InsertOnly(tbl, owner_id, bucket, content, found) ==
    IF found
    THEN [clips |-> tbl, response |-> Resp(200, "success", NoContent)]
    ELSE IF ClipInsertFails(tbl, ClipRow(owner_id, bucket, content))
    THEN [clips |-> tbl, response |-> InternalServerError]
    ELSE [clips |-> tbl \cup {ClipRow(owner_id, bucket, content)},
          response |-> Resp(200, "success", NoContent)]

\* Lines 81-87, given what the query of line 80 found: the table after the
\* commit and the response.
put_clip_commit(tbl, owner_id, bucket, content, found) ==
    IF found
    THEN [clips |-> ClipUpdate(tbl, owner_id, bucket, content),
          response |-> Resp(200, "success", NoContent)]
    ELSE IF ClipInsertFails(tbl, ClipRow(owner_id, bucket, content))
    THEN [clips |-> tbl, response |-> InternalServerError]
    ELSE [clips |-> tbl \cup {ClipRow(owner_id, bucket, content)},
          response |-> Resp(200, "success", NoContent)]

\* The whole handler.
PutClip(api_key, bucket, content) ==
    \/ Reject(api_key)
    \/ /\ Authenticated(api_key)
       /\ LET uid == CurrentUserId(api_key)
              res == put_clip_commit(clips, uid, bucket, content,
                                     ClipQuery(clips, uid, bucket) # {})
          IN  /\ response' = res.response
              /\ clips' = res.clips
       /\ UNCHANGED <<users, friendships, config, pending>>

---------------------------------------------------------------------------
(* GET /clip/{owner_id}/{bucket} *)

\* Mutant: the clip is looked up before the authorization check.
get_clip_ClipFirst(fr, cl, uid, owner_id, bucket) ==
    IF ClipQuery(cl, owner_id, bucket) = {}
    THEN HTTPException(404, "Clip not found")
    ELSE IF FriendshipQuery(fr, uid, owner_id) = {} /\ uid # owner_id
    THEN HTTPException(403, "Not authorized to access this clip")
    ELSE Resp(200, "",
              (CHOOSE r \in ClipQuery(cl, owner_id, bucket) : TRUE).content)

\* Lines 91-102: the handler body for the authenticated user `uid`.
get_clip(fr, cl, uid, owner_id, bucket) ==
    IF FriendshipQuery(fr, uid, owner_id) = {} /\ uid # owner_id
    THEN HTTPException(403, "Not authorized to access this clip")
    ELSE IF ClipQuery(cl, owner_id, bucket) = {}
    THEN HTTPException(404, "Clip not found")
    ELSE Resp(200, "",
              (CHOOSE r \in ClipQuery(cl, owner_id, bucket) : TRUE).content)

GetClip(api_key, owner_id, bucket) ==
    \/ Reject(api_key)
    \/ /\ Authenticated(api_key)
       /\ response' = get_clip(friendships, clips, CurrentUserId(api_key),
                               owner_id, bucket)
       /\ UNCHANGED <<users, friendships, clips, config, pending>>

---------------------------------------------------------------------------
(* POST /users/add/{friend_id} *)

\* Mutant: no search for an existing friendship.
add_friend_check_NoExisting(us, fr, uid, friend_id) ==
    IF friend_id = uid
    THEN HTTPException(400, "Cannot add yourself as friend")
    ELSE IF {r \in us : r.id = friend_id} = {}
    THEN HTTPException(404, "User not found")
    ELSE Resp(200, "insert", NoContent)

\* Lines 106-119: the checks before the insert.  "insert" when the handler
\* goes on to line 121.
add_friend_check(us, fr, uid, friend_id) ==
    IF friend_id = uid
    THEN HTTPException(400, "Cannot add yourself as friend")
    ELSE IF {r \in us : r.id = friend_id} = {}
    THEN HTTPException(404, "User not found")
    ELSE IF FriendshipQuery(fr, uid, friend_id) # {}
    THEN Resp(200, "already friends", NoContent)
    ELSE Resp(200, "insert", NoContent)

\* Lines 121-124: db.add(friendship); db.commit().
add_friend_commit(fr, uid, friend_id) ==
    IF FriendshipInsertFails(fr, <<uid, friend_id>>)
    THEN [friendships |-> fr, response |-> InternalServerError]
    ELSE [friendships |-> fr \cup {<<uid, friend_id>>},
          response |-> Resp(200, "success", NoContent)]

AddFriend(api_key, friend_id) ==
    \/ Reject(api_key)
    \/ /\ Authenticated(api_key)
       /\ LET uid == CurrentUserId(api_key)
              chk == add_friend_check(users, friendships, uid, friend_id)
              res == add_friend_commit(friendships, uid, friend_id)
          IN  IF chk.detail = "insert"
              THEN /\ friendships' = res.friendships
                   /\ response' = res.response
              ELSE /\ friendships' = friendships
                   /\ response' = chk
       /\ UNCHANGED <<users, clips, config, pending>>

---------------------------------------------------------------------------
(* CLI: register *)

\* save_config: the file is rewritten with one key=value line per entry.
save_config(user_id, api_key) ==
    {<<"user_id", user_id>>, <<"api_key", api_key>>}

\* load_config: the dict read back from the file, empty when there is no
\* file (each line is split at its first "="; save_config writes each key
\* once).
load_config(file) ==
    [key \in {l[1] : l \in file} |-> (CHOOSE l \in file : l[1] = key)[2]]

\* Lines 169-182.  The config is saved first; an exception of the insert is
\* caught and echoed.
Register(user_id, api_key) ==
    /\ config' = save_config(user_id, api_key)
    /\ IF UsersInsertFails(users, UserRow(user_id, api_key))
       THEN /\ users' = users
            /\ response' = Echo("Error")
       ELSE /\ users' = users \cup {UserRow(user_id, api_key)}
            /\ response' = Echo("Registered successfully")
    /\ UNCHANGED <<friendships, clips, pending>>

---------------------------------------------------------------------------
(* Several server processes: query and commit as separate steps *)

PutReq(uid, bucket, content, found) ==
    [op |-> "put", uid |-> uid, arg |-> bucket, content |-> content,
     found |-> found]
AddReq(uid, friend_id) ==
    [op |-> "add", uid |-> uid, arg |-> friend_id, content |-> NoContent,
     found |-> FALSE]

InFlight == BagCardinality(pending)

\* Dependencies and line 80.
PutClipQuery(api_key, bucket, content) ==
    \/ Reject(api_key)
    \/ /\ Authenticated(api_key)
       /\ InFlight < MaxInFlight
       /\ LET uid == CurrentUserId(api_key)
          IN  pending' = pending (+) SetToBag({PutReq(uid, bucket, content,
                                     ClipQuery(clips, uid, bucket) # {})})
       /\ UNCHANGED <<users, friendships, clips, config, response>>

\* Lines 81-87.
PutClipCommit(req) ==
    /\ req.op = "put"
    /\ LET res == put_clip_commit(clips, req.uid, req.arg, req.content,
                                  req.found)
       IN  /\ clips' = res.clips
           /\ response' = res.response
    /\ pending' = pending (-) SetToBag({req})
    /\ UNCHANGED <<users, friendships, config>>

\* Dependencies and lines 106-119.
AddFriendQuery(api_key, friend_id) ==
    \/ Reject(api_key)
    \/ /\ Authenticated(api_key)
       /\ LET uid == CurrentUserId(api_key)
              chk == add_friend_check(users, friendships, uid, friend_id)
          IN  IF chk.detail = "insert"
              THEN /\ InFlight < MaxInFlight
                   /\ pending' = pending (+) SetToBag({AddReq(uid, friend_id)})
                   /\ UNCHANGED response
              ELSE /\ response' = chk
                   /\ UNCHANGED pending
       /\ UNCHANGED <<users, friendships, clips, config>>

\* Lines 121-124.
AddFriendCommit(req) ==
    /\ req.op = "add"
    /\ LET res == add_friend_commit(friendships, req.uid, req.arg)
       IN  /\ friendships' = res.friendships
           /\ response' = res.response
    /\ pending' = pending (-) SetToBag({req})
    /\ UNCHANGED <<users, clips, config>>

---------------------------------------------------------------------------
(* Specifications *)

Init ==
    /\ users = {}
    /\ friendships = {}
    /\ clips = {}
    /\ config = {}
    /\ response = NoResponse
    /\ pending = EmptyBag

DoRegister == \E u \in SomeUserIds, k \in SomeApiKeys : Register(u, k)
DoPutClip ==
    \E k \in ReqKeys, b \in Buckets, c \in Contents : PutClip(k, b, c)
DoGetClip ==
    \E k \in ReqKeys, o \in UserIds, b \in Buckets : GetClip(k, o, b)
DoAddFriend == \E k \in ReqKeys, f \in UserIds : AddFriend(k, f)

Next == DoRegister \/ DoPutClip \/ DoGetClip \/ DoAddFriend

Spec == Init /\ [][Next]_vars

DoPutClipQuery ==
    \E k \in ReqKeys, b \in OneBucket, c \in Contents :
        PutClipQuery(k, b, c)
DoPutClipCommit == \E req \in BagToSet(pending) : PutClipCommit(req)
DoAddFriendQuery == \E k \in ReqKeys, f \in UserIds : AddFriendQuery(k, f)
DoAddFriendCommit == \E req \in BagToSet(pending) : AddFriendCommit(req)

ConcNext ==
    \/ DoRegister
    \/ DoGetClip
    \/ DoPutClipQuery
    \/ DoPutClipCommit
    \/ DoAddFriendQuery
    \/ DoAddFriendCommit

ConcSpec == Init /\ [][ConcNext]_vars

AuthRegister == \E u \in UserIds : Register(u, KeyOf(u))
AuthPutClip ==
    \E k \in ReqKeys, b \in OneBucket, c \in Contents : PutClip(k, b, c)
AuthGetClip ==
    \E k \in ReqKeys, o \in UserIds, b \in OneBucket : GetClip(k, o, b)
AuthAddFriend == \E k \in ReqKeys, f \in UserIds : AddFriend(k, f)

AuthNext == AuthRegister \/ AuthPutClip \/ AuthGetClip \/ AuthAddFriend

AuthSpec == Init /\ [][AuthNext]_vars

---------------------------------------------------------------------------
(* Claims *)

Registered(id) == \E r \in users : r.id = id

\* C1: a read by the owner returns the content of the most recent PutClip
\* to that (owner, bucket): a put makes the owner's read of its key return
\* its content (created or replaced), and what the owner's read of a key
\* returns changes only by a put of that owner to that key.
C1_PutThenGet ==
    [][/\ \A k \in ApiKeys, b \in Buckets, c \in Contents :
             (Authenticated(k) /\ PutClip(k, b, c)) =>
                get_clip(friendships', clips', CurrentUserId(k),
                         CurrentUserId(k), b) = Resp(200, "", c)
       /\ \A o \in UserIds, b \in Buckets :
             get_clip(friendships', clips', o, o, b)
                   # get_clip(friendships, clips, o, o, b)
             => \E k \in ApiKeys, c \in Contents :
                   /\ Authenticated(k)
                   /\ CurrentUserId(k) = o
                   /\ PutClip(k, b, c)]_vars

C1_Witness ==
    /\ ClipRow("alice", "work", "b") \in clips
    /\ ClipRow("alice", "default", "a") \in clips
    /\ ClipRow("bob", "work", "a") \in clips
    /\ response = Resp(200, "", "b")

\* C2: a GetClip by a requester who is not the owner and has no friendship
\* row with the owner in either direction answers 403 without content; and
\* a response carries clip content only if it answers a GetClip by the
\* owner or by a user joined to the owner by an edge.
C2_ForbiddenWithoutEdge ==
    [][/\ \A k \in ApiKeys, o \in UserIds, b \in Buckets :
             (Authenticated(k) /\ GetClip(k, o, b)) =>
                LET uid == CurrentUserId(k)
                IN  (/\ uid # o
                     /\ <<uid, o>> \notin friendships
                     /\ <<o, uid>> \notin friendships)
                    => (response'.status = 403
                        /\ response'.content = NoContent)
       /\ response'.content # NoContent =>
             \E k \in ApiKeys, o \in UserIds, b \in Buckets :
                /\ Authenticated(k)
                /\ GetClip(k, o, b)
                /\ \/ CurrentUserId(k) = o
                   \/ <<CurrentUserId(k), o>> \in friendships
                   \/ <<o, CurrentUserId(k)>> \in friendships]_vars

\* bob is refused alice's clip although both have an edge with carol.
C2_Witness ==
    /\ response.status = 403
    /\ friendships = {<<"carol", "alice">>, <<"bob", "carol">>}
    /\ ClipRow("alice", "work", "a") \in clips

\* C3: while a friendship row (A, B) is stored, GetClip(A, B, bucket) and
\* GetClip(B, A, bucket) are never Forbidden and return the stored content
\* of every clip that exists; and rows of friendships are never removed.
C3_EdgeStored ==
    \A e \in friendships : \A b \in Buckets :
        /\ get_clip(friendships, clips, e[1], e[2], b).status # 403
        /\ get_clip(friendships, clips, e[2], e[1], b).status # 403
        /\ \A r \in clips :
              /\ (r.owner_id = e[2] /\ r.bucket = b) =>
                    get_clip(friendships, clips, e[1], e[2], b)
                        = Resp(200, "", r.content)
              /\ (r.owner_id = e[1] /\ r.bucket = b) =>
                    get_clip(friendships, clips, e[2], e[1], b)
                        = Resp(200, "", r.content)

C3_BidirectionalRead ==
    [](C3_EdgeStored) /\ [][friendships \subseteq friendships']_vars

C3_Witness ==
    /\ friendships = {<<"bob", "alice">>}
    /\ ClipRow("alice", "work", "a") \in clips
    /\ ClipRow("bob", "work", "b") \in clips
    /\ response = Resp(200, "", "a")

\* C4 as stated: a GetClip by any authenticated requester for a key with no
\* clip row answers 404.
C4_NotFoundRegardless ==
    [][\A k \in ApiKeys, o \in UserIds, b \in Buckets :
          (/\ Authenticated(k)
           /\ GetClip(k, o, b)
           /\ ClipQuery(clips, o, b) = {})
          => response'.status = 404]_vars

\* C4 amended: for a key with no clip row, GetClip answers 404 when the
\* requester is the owner or is joined to the owner by a friendship row in
\* either direction, and 403 otherwise.
C4_NotFoundWhenAuthorized ==
    [][\A k \in ApiKeys, o \in UserIds, b \in Buckets :
          (/\ Authenticated(k)
           /\ GetClip(k, o, b)
           /\ ClipQuery(clips, o, b) = {})
          => LET uid == CurrentUserId(k)
             IN  IF \/ uid = o
                    \/ <<uid, o>> \in friendships
                    \/ <<o, uid>> \in friendships
                 THEN response'.status = 404
                 ELSE response'.status = 403]_vars

C4_Witness ==
    /\ response = HTTPException(404, "Clip not found")
    /\ friendships = {<<"alice", "bob">>}
    /\ \A r \in clips : r.owner_id = "alice"
    /\ clips # {}

\* C5: a request to any endpoint whose key matches no user row, or that
\* carries no key, answers 401 without content and leaves users,
\* friendships and clips unchanged.
C5_UnknownKeyIs401 ==
    [][\A k \in ReqKeys :
          (/\ ~Authenticated(k)
           /\ \/ \E b \in Buckets, c \in Contents : PutClip(k, b, c)
              \/ \E o \in UserIds, b \in Buckets : GetClip(k, o, b)
              \/ \E f \in UserIds : AddFriend(k, f))
          => /\ response'.status = 401
             /\ response'.content = NoContent
             /\ UNCHANGED <<users, friendships, clips>>]_vars

\* C6: a PutClip of an authenticated owner never fails, also when another
\* put to the same key commits between its query and its commit; after it
\* exactly one row holds the key, with the content of the request.
C6_PutAlwaysSucceeds ==
    [][\A req \in BagToSet(pending) :
          PutClipCommit(req) =>
             /\ response'.status = 200
             /\ ClipQuery(clips', req.uid, req.arg)
                    = {ClipRow(req.uid, req.arg, req.content)}]_vars

\* C7: an AddFriend(A, B) with A # B and B registered reports success and
\* leaves exactly one row between A and B; when a row between them is
\* already stored (the second call), friendships is left as it was.
C7_AddFriendTwice ==
    [][\A k \in ApiKeys, f \in UserIds :
          (/\ Authenticated(k)
           /\ AddFriend(k, f)
           /\ CurrentUserId(k) # f
           /\ Registered(f))
          => LET uid == CurrentUserId(k)
             IN  /\ response'.status = 200
                 /\ Cardinality(FriendshipQuery(friendships', uid, f)) = 1
                 /\ FriendshipQuery(friendships, uid, f) # {}
                       => friendships' = friendships]_vars

C7_Witness ==
    /\ response = Resp(200, "already friends", NoContent)
    /\ friendships = {<<"alice", "bob">>}

\* C8: a PutClip authenticated as U with bucket b changes at most the clip
\* row keyed (U, b): every other clip row, users and friendships are left
\* unchanged.
C8_PutFrame ==
    [][\A k \in ApiKeys, b \in Buckets, c \in Contents :
          (Authenticated(k) /\ PutClip(k, b, c)) =>
             LET uid == CurrentUserId(k)
             IN  /\ clips \ ClipQuery(clips, uid, b)
                       = clips' \ ClipQuery(clips', uid, b)
                 /\ UNCHANGED <<users, friendships>>]_vars

C8_Witness ==
    /\ ClipRow("alice", "work", "b") \in clips
    /\ ClipRow("alice", "default", "a") \in clips
    /\ ClipRow("bob", "work", "a") \in clips
    /\ ClipRow("bob", "default", "a") \in clips
    /\ friendships = {<<"bob", "alice">>}
    /\ response = Resp(200, "success", NoContent)

\* C9: at most one friendship row exists between any two users: the rows
\* (A, B) and (B, A) are never both stored.
C9_OneRowPerPair ==
    \A a \in UserIds, b \in UserIds :
        a # b => ~(<<a, b>> \in friendships /\ <<b, a>> \in friendships)

\* The api_key of the local config authenticates as the user_id of the same
\* config.
ConfigResolves ==
    LET cfg == load_config(config)
    IN  cfg # <<>> =>
           get_current_user(users, cfg["api_key"])
               = {UserRow(cfg["user_id"], cfg["api_key"])}

\* C10: a register for a user id that already has a user row reports an
\* error and writes nothing (users and the local config are unchanged), so
\* that after every register the key of the local config authenticates as
\* the user of the local config.
C10_RegisterConflictWritesNothing ==
    [][\A u \in UserIds, k \in ApiKeys :
          Register(u, k) =>
             /\ Registered(u) => /\ response' = Echo("Error")
                                 /\ users' = users
                                 /\ config' = config
             /\ ConfigResolves']_vars

===========================================================================
